---- MODULE Spec2Model ----
(***************************************************************************)
(* Insider-threat risk scoring (dataExploration.py) and the risk          *)
(* dashboard (dashboard.py).                                               *)
(*                                                                         *)
(* The pipeline script is linear; its stages are modelled as actions over  *)
(* the data frames it builds.  Three specifications start it at three      *)
(* places, each with its inputs drawn from bounded sets:                   *)
(*   SpecJoin    raw logs -> per-(user,date) aggregates -> outer join      *)
(*   SpecRolling joined table -> to_datetime -> sort -> rolling mean       *)
(*   SpecRisk    detector scores -> risk_score -> thresholds -> risk_level *)
(* SpecDash is the dashboard session: script re-runs over a cached table.  *)
(*                                                                         *)
(* Representation:                                                         *)
(*   a data frame is a sequence of records (column name -> value);         *)
(*   a raw date string "MM/../YYYY" is the record [m, y]; strings compare  *)
(*   month first, datetimes compare year first;                            *)
(*   means are kept exactly, scaled by MeanScale; quantiles are kept       *)
(*   exactly, scaled by QDen.                                              *)
(***************************************************************************)
EXTENDS Integers, Sequences, FiniteSets, TLC

\* ---- bounds of the model
NumUsers == 2
MaxEvents == 3
MaxRows == 4
MaxPop == 5
MaxScore == 2
MaxFileRows == 3
\* the literal 1000 of the user multiselect's default and of the detail table's
\* LIMIT, scaled to the tables of the model
UserDefaultLimit == 2
DetailLimit == 1

\* ---- program constants
WINDOW == 3
MIN_PERIODS == 1
MeanScale == 6
Q_LOW == 15
Q_HIGH == 19
QDen == 20
MonthsPerYear == 12
NaN == -1
HoursPerDay == 24
DaysPerWeek == 7
TopUsers == 10

VARIABLES pc, logon_df, http_df, device_df, logon_agg, http_agg, device_agg,
          merged_df, low_thresh, high_thresh

pvars == <<logon_df, http_df, device_df, logon_agg, http_agg, device_agg,
           merged_df, low_thresh, high_thresh>>

\* the dashboard: the scored file, the resource cache, the widgets' state and
\* what one run of the script has computed and shown so far
VARIABLES file, cache, loads, date_w, users_w, risk_w, logon_cb, http_cb, device_cb,
          con, start_end, query_conditions, all_users, selected_users, where_clause,
          filtered_row_count, kpi_data, views, df_flagged_details, df_export,
          shown, queries

wvars == <<date_w, users_w, risk_w, logon_cb, http_cb, device_cb>>

lvars == <<con, start_end, query_conditions, all_users, selected_users, where_clause,
           filtered_row_count, kpi_data, views, df_flagged_details, df_export,
           shown, queries>>

dvars == <<file, cache, loads, wvars, lvars>>

vars == <<pc, pvars, dvars>>

RISK_LEVEL_ORDER == <<"Low", "Medium", "High">>

\* nothing computed, nothing shown: the state of the script's names at its start
FreshRun ==
    /\ con = <<>>
    /\ start_end = <<>>
    /\ query_conditions = <<>>
    /\ all_users = <<>>
    /\ selected_users = {}
    /\ where_clause = <<>>
    /\ filtered_row_count = 0
    /\ kpi_data = <<>>
    /\ views = <<>>
    /\ df_flagged_details = <<>>
    /\ df_export = <<>>
    /\ shown = {}
    /\ queries = 0

\* the same names at the start of a run of the script
StartRun ==
    /\ con' = <<>>
    /\ start_end' = <<>>
    /\ query_conditions' = <<>>
    /\ all_users' = <<>>
    /\ selected_users' = {}
    /\ where_clause' = <<>>
    /\ filtered_row_count' = 0
    /\ kpi_data' = <<>>
    /\ views' = <<>>
    /\ df_flagged_details' = <<>>
    /\ df_export' = <<>>
    /\ shown' = {}
    /\ queries' = 0

\* every widget at its default value
DefaultWidgets ==
    /\ date_w = [set |-> FALSE, val |-> <<>>]
    /\ users_w = [set |-> FALSE, val |-> {}, options |-> <<>>]
    /\ risk_w = {"Low", "Medium", "High"}
    /\ logon_cb = FALSE
    /\ http_cb = FALSE
    /\ device_cb = FALSE

DashIdle ==
    /\ file = [status |-> "missing", rows |-> <<>>]
    /\ cache = <<>>
    /\ loads = 0
    /\ DefaultWidgets
    /\ FreshRun

PipelineIdle ==
    /\ logon_df = <<>>
    /\ http_df = <<>>
    /\ device_df = <<>>
    /\ logon_agg = <<>>
    /\ http_agg = <<>>
    /\ device_agg = <<>>
    /\ merged_df = <<>>
    /\ low_thresh = 0
    /\ high_thresh = 0

Users == 1..NumUsers

\* the date strings of the logs: two months of two years
RawDates == [m : 1..2, y : 1..2]

\* the dates of the raw events: the months of the first year
EventDates == {d \in RawDates : d.y = 1}

LogonCounts == 0..2

\* the keys of the joined table the rolling mean is taken over: two users
Keys == {1, 2} \X RawDates

\* ------------------------------------------------------------------------
\* helpers on data frames

RECURSIVE SumSeq(_)
SumSeq(s) == IF s = <<>> THEN 0 ELSE Head(s) + SumSeq(Tail(s))

RECURSIVE Concat(_)
Concat(ss) == IF ss = <<>> THEN <<>> ELSE Head(ss) \o Concat(Tail(ss))

Column(df, c) == [i \in 1..Len(df) |-> df[i][c]]

KeyOf(r) == <<r.user, r.date>>

KeysOf(df) == {KeyOf(df[i]) : i \in 1..Len(df)}

RowsAt(df, k) == SelectSeq(df, LAMBDA r : KeyOf(r) = k)

\* order of two date strings: character by character, month first
StrLess(d1, d2) == d1.m < d2.m \/ (d1.m = d2.m /\ d1.y < d2.y)

KeyLess(k1, k2) == k1[1] < k2[1] \/ (k1[1] = k2[1] /\ StrLess(k1[2], k2[2]))

RECURSIVE SortedKeys(_)
SortedKeys(S) ==
    IF S = {} THEN <<>>
    ELSE LET k == CHOOSE x \in S : \A o \in S \ {x} : KeyLess(x, o)
         IN <<k>> \o SortedKeys(S \ {k})

\* ------------------------------------------------------------------------
\* feature engineering: aggregation and join

\* groupby(['user','date']).agg({'activity': 'count'}): one row per key that
\* occurs, in key order
CountAgg(df, col) ==
    LET ks == SortedKeys(KeysOf(df))
    IN [i \in 1..Len(ks) |->
          [user |-> ks[i][1], date |-> ks[i][2]] @@
          (col :> Len(RowsAt(df, ks[i])))]

HttpAgg(df) ==
    LET ks == SortedKeys(KeysOf(df))
    IN [i \in 1..Len(ks) |->
          [user |-> ks[i][1], date |-> ks[i][2],
           http_requests |-> Len(RowsAt(df, ks[i])),
           http_bytes_sent |-> SumSeq(Column(RowsAt(df, ks[i]), "bytes_sent")),
           http_bytes_received |-> SumSeq(Column(RowsAt(df, ks[i]), "bytes_received"))]]

\* the value columns of each aggregate, absent (NaN) on the other side of a join
LogonNaN == [logon_count |-> NaN]

HttpNaN == [http_requests |-> NaN, http_bytes_sent |-> NaN, http_bytes_received |-> NaN]

DeviceNaN == [device_activity_count |-> NaN]

\* the join with how='inner': only the keys both sides have
MergeInner(left, right, lnan, rnan) ==
    LET ks == SortedKeys(KeysOf(left) \cap KeysOf(right))
        RowsFor(k) ==
            LET L == RowsAt(left, k)
                R == RowsAt(right, k)
            IN [i \in 1..(Len(L) * Len(R)) |->
                  L[((i - 1) \div Len(R)) + 1] @@ R[((i - 1) % Len(R)) + 1]]
    IN Concat([i \in 1..Len(ks) |-> RowsFor(ks[i])])

\* pd.merge(left, right, on=['user','date'], how='outer'): for every key of
\* either side, every pairing of the left rows and the right rows of that key;
\* a side without the key gives NaN; keys in lexicographic order
Merge(left, right, lnan, rnan) ==
    LET ks == SortedKeys(KeysOf(left) \cup KeysOf(right))
        RowsFor(k) ==
            LET L == RowsAt(left, k)
                R == RowsAt(right, k)
            IN IF Len(R) = 0 THEN [i \in 1..Len(L) |-> L[i] @@ rnan]
               ELSE IF Len(L) = 0 THEN [i \in 1..Len(R) |-> R[i] @@ lnan]
               ELSE [i \in 1..(Len(L) * Len(R)) |->
                       L[((i - 1) \div Len(R)) + 1] @@ R[((i - 1) % Len(R)) + 1]]
    IN Concat([i \in 1..Len(ks) |-> RowsFor(ks[i])])

MeasureCols == {"logon_count", "http_requests", "http_bytes_sent",
                "http_bytes_received", "device_activity_count"}

FillZero(df) ==
    [i \in 1..Len(df) |->
       [c \in DOMAIN df[i] |->
          IF c \in MeasureCols /\ df[i][c] = NaN THEN 0 ELSE df[i][c]]]

Aggregate ==
    /\ pc = "raw"
    /\ logon_agg' = CountAgg(logon_df, "logon_count")
    /\ http_agg' = HttpAgg(http_df)
    /\ device_agg' = CountAgg(device_df, "device_activity_count")
    /\ pc' = "aggregated"
    /\ UNCHANGED <<logon_df, http_df, device_df, merged_df, low_thresh, high_thresh>>
    /\ UNCHANGED dvars

MergeAll ==
    /\ pc = "aggregated"
    /\ merged_df' = Merge(Merge(logon_agg, http_agg, LogonNaN, HttpNaN),
                          device_agg, LogonNaN @@ HttpNaN, DeviceNaN)
    /\ pc' = "merged"
    /\ UNCHANGED <<logon_df, http_df, device_df, logon_agg, http_agg, device_agg,
                   low_thresh, high_thresh>>
    /\ UNCHANGED dvars

Fillna ==
    /\ pc = "merged"
    /\ merged_df' = FillZero(merged_df)
    /\ pc' = "filled"
    /\ UNCHANGED <<logon_df, http_df, device_df, logon_agg, http_agg, device_agg,
                   low_thresh, high_thresh>>
    /\ UNCHANGED dvars

SeqsUpTo(S, n) == UNION {[1..k -> S] : k \in 0..n}

LogonEvents == [user : Users, date : EventDates, activity : {"Logon"}]

HttpEvents == [user : Users, date : EventDates, url : {"url"},
               bytes_sent : {1, 2}, bytes_received : {3}]

DeviceEvents == [user : Users, date : EventDates, activity : {"Connect"}]

InitJoin ==
    /\ pc = "raw"
    /\ \E a \in 0..MaxEvents :
         \E b \in 0..(MaxEvents - a) :
           /\ logon_df \in [1..a -> LogonEvents]
           /\ http_df \in [1..b -> HttpEvents]
           /\ device_df \in SeqsUpTo(DeviceEvents, MaxEvents - a - b)
    /\ logon_agg = <<>>
    /\ http_agg = <<>>
    /\ device_agg = <<>>
    /\ merged_df = <<>>
    /\ low_thresh = 0
    /\ high_thresh = 0
    /\ DashIdle

NextJoin == Aggregate \/ MergeAll \/ Fillna

SpecJoin == InitJoin /\ [][NextJoin]_vars

\* ------------------------------------------------------------------------
\* feature engineering: per-user rolling mean of the logon count

\* pd.to_datetime: the instant a date string denotes; years dominate months
ToDatetime(d) == d.y * MonthsPerYear + d.m

ConvertDates(df) == [i \in 1..Len(df) |-> [df[i] EXCEPT !.date = ToDatetime(@)]]

RowLess(r1, r2) == r1.user < r2.user \/ (r1.user = r2.user /\ r1.date < r2.date)

\* sort_values(['user','date']): the least remaining row first
RECURSIVE SortValues(_)
SortValues(df) ==
    IF df = <<>> THEN <<>>
    ELSE LET i == CHOOSE x \in 1..Len(df) : \A o \in 1..Len(df) : ~RowLess(df[o], df[x])
         IN <<df[i]>> \o SortValues([j \in 1..(Len(df) - 1) |->
                                        IF j < i THEN df[j] ELSE df[j + 1]])

\* x.rolling(WINDOW, min_periods=MIN_PERIODS).mean() of a series, scaled by MeanScale
RollingMean(x) ==
    [k \in 1..Len(x) |->
       LET lo == IF k - WINDOW + 1 < 1 THEN 1 ELSE k - WINDOW + 1
           n == k - lo + 1
       IN IF n < MIN_PERIODS THEN NaN
          ELSE (MeanScale * SumSeq(SubSeq(x, lo, k))) \div n]

\* the rolling mean taken over the whole frame, the groupby left out
FrameTransform(df, col) == RollingMean(Column(df, col))

\* groupby('user')[col].transform(f): f over each user's rows in frame order,
\* each result put back on the row it came from
GroupTransform(df, col) ==
    [i \in 1..Len(df) |->
       LET idx == SelectSeq([j \in 1..Len(df) |-> j], LAMBDA j : df[j].user = df[i].user)
           series == [k \in 1..Len(idx) |-> df[idx[k]][col]]
           pos == CHOOSE k \in 1..Len(idx) : idx[k] = i
       IN RollingMean(series)[pos]]

ToDatetimeStep ==
    /\ pc = "filled"
    /\ merged_df' = ConvertDates(merged_df)
    /\ pc' = "dated"
    /\ UNCHANGED <<logon_df, http_df, device_df, logon_agg, http_agg, device_agg,
                   low_thresh, high_thresh>>
    /\ UNCHANGED dvars

SortStep ==
    /\ pc = "dated"
    /\ merged_df' = SortValues(merged_df)
    /\ pc' = "sorted"
    /\ UNCHANGED <<logon_df, http_df, device_df, logon_agg, http_agg, device_agg,
                   low_thresh, high_thresh>>
    /\ UNCHANGED dvars

RollingStep ==
    /\ pc = "sorted"
    /\ merged_df' = LET roll == GroupTransform(merged_df, "logon_count")
                    IN [i \in 1..Len(merged_df) |->
                          merged_df[i] @@ [logon_rolling_3 |-> roll[i]]]
    /\ pc' = "rolled"
    /\ UNCHANGED <<logon_df, http_df, device_df, logon_agg, http_agg, device_agg,
                   low_thresh, high_thresh>>
    /\ UNCHANGED dvars

DeltaStep ==
    /\ pc = "rolled"
    /\ merged_df' = [i \in 1..Len(merged_df) |->
                       merged_df[i] @@
                       [logon_delta |-> MeanScale * merged_df[i].logon_count
                                        - merged_df[i].logon_rolling_3]]
    /\ pc' = "delta"
    /\ UNCHANGED <<logon_df, http_df, device_df, logon_agg, http_agg, device_agg,
                   low_thresh, high_thresh>>
    /\ UNCHANGED dvars

\* a joined, zero-filled table: distinct keys in join order
JoinedRow(k, n) ==
    [user |-> k[1], date |-> k[2], logon_count |-> n, http_requests |-> 0,
     http_bytes_sent |-> 0, http_bytes_received |-> 0, device_activity_count |-> 0]

InitRolling ==
    /\ pc = "filled"
    /\ \E K \in SUBSET Keys :
         /\ Cardinality(K) <= MaxRows
         /\ \E f \in [K -> LogonCounts] :
              merged_df = [i \in 1..Cardinality(K) |->
                             JoinedRow(SortedKeys(K)[i], f[SortedKeys(K)[i]])]
    /\ logon_df = <<>>
    /\ http_df = <<>>
    /\ device_df = <<>>
    /\ logon_agg = <<>>
    /\ http_agg = <<>>
    /\ device_agg = <<>>
    /\ low_thresh = 0
    /\ high_thresh = 0
    /\ DashIdle

NextRolling == ToDatetimeStep \/ SortStep \/ RollingStep \/ DeltaStep

SpecRolling == InitRolling /\ [][NextRolling]_vars

\* ------------------------------------------------------------------------
\* anomaly scoring: risk score, global thresholds, risk level

RECURSIVE SortInts(_)
SortInts(s) ==
    IF s = <<>> THEN <<>>
    ELSE LET i == CHOOSE x \in 1..Len(s) : \A o \in 1..Len(s) : s[x] <= s[o]
         IN <<s[i]>> \o SortInts([j \in 1..(Len(s) - 1) |->
                                     IF j < i THEN s[j] ELSE s[j + 1]])

\* Series.quantile(q / QDen) with linear interpolation, scaled by QDen
Quantile(s, q) ==
    LET v == SortInts(s)
        p == q * (Len(v) - 1)
        i == (p \div QDen) + 1
        r == p % QDen
    IN IF r = 0 THEN QDen * v[i]
       ELSE QDen * v[i] + r * (v[i + 1] - v[i])

\* the labels of the two lower bands exchanged
classify_risk_swapped(score) ==
    IF QDen * score < low_thresh THEN "Medium"
    ELSE IF QDen * score < high_thresh THEN "Low"
    ELSE "High"

\* the upper cut taken with <= : a score equal to high_thresh is Medium
classify_risk_strict(score) ==
    IF QDen * score < low_thresh THEN "Low"
    ELSE IF QDen * score <= high_thresh THEN "Medium"
    ELSE "High"

classify_risk(score) ==
    IF QDen * score < low_thresh THEN "Low"
    ELSE IF QDen * score < high_thresh THEN "Medium"
    ELSE "High"

RiskScoreStep ==
    /\ pc = "fitted"
    /\ merged_df' = [i \in 1..Len(merged_df) |->
                       merged_df[i] @@ [risk_score |-> 0 - merged_df[i].anomaly_score]]
    /\ pc' = "scored"
    /\ UNCHANGED <<logon_df, http_df, device_df, logon_agg, http_agg, device_agg,
                   low_thresh, high_thresh>>
    /\ UNCHANGED dvars

ThresholdStep ==
    /\ pc = "scored"
    /\ low_thresh' = Quantile(Column(merged_df, "risk_score"), Q_LOW)
    /\ high_thresh' = Quantile(Column(merged_df, "risk_score"), Q_HIGH)
    /\ pc' = "thresholds"
    /\ UNCHANGED <<logon_df, http_df, device_df, logon_agg, http_agg, device_agg,
                   merged_df>>
    /\ UNCHANGED dvars

ClassifyStep ==
    /\ pc = "thresholds"
    /\ merged_df' = [i \in 1..Len(merged_df) |->
                       merged_df[i] @@
                       [risk_level |-> classify_risk(merged_df[i].risk_score)]]
    /\ pc' = "classified"
    /\ UNCHANGED <<logon_df, http_df, device_df, logon_agg, http_agg, device_agg,
                   low_thresh, high_thresh>>
    /\ UNCHANGED dvars

\* the detector's decision_function is not modelled: any scores
InitRisk ==
    /\ pc = "fitted"
    /\ \E n \in 1..MaxPop :
         \E a \in [1..n -> (0 - MaxScore)..1] :
           merged_df = [i \in 1..n |-> [anomaly_score |-> a[i]]]
    /\ logon_df = <<>>
    /\ http_df = <<>>
    /\ device_df = <<>>
    /\ logon_agg = <<>>
    /\ http_agg = <<>>
    /\ device_agg = <<>>
    /\ low_thresh = 0
    /\ high_thresh = 0
    /\ DashIdle

NextRisk == RiskScoreStep \/ ThresholdStep \/ ClassifyStep

SpecRisk == InitRisk /\ [][NextRisk]_vars

\* ------------------------------------------------------------------------
\* properties of the pipeline

Rank(level) == CASE level = "Low" -> 1 [] level = "Medium" -> 2 [] level = "High" -> 3

Scores == Column(merged_df, "risk_score")

\* C1: once every row is classified, a row with a risk_score no larger than
\* another row's has a risk_level no higher (Low < Medium < High)
C1_RiskLevelMonotonic ==
    pc = "classified" =>
      \A i, j \in 1..Len(merged_df) :
        merged_df[i].risk_score <= merged_df[j].risk_score
          => Rank(merged_df[i].risk_level) <= Rank(merged_df[j].risk_level)

C1_Witness ==
    /\ pc = "classified"
    /\ \E i, j, k \in 1..Len(merged_df) :
         /\ merged_df[i].risk_level = "Low"
         /\ merged_df[j].risk_level = "Medium"
         /\ merged_df[k].risk_level = "High"

\* C2 as stated: Low below the 75th percentile, High only above the 95th
\* percentile, Medium from the 75th to the 95th
C2_HighOnlyAbove ==
    pc = "classified" =>
      \A i \in 1..Len(merged_df) :
        LET s == QDen * merged_df[i].risk_score
            l == merged_df[i].risk_level
        IN /\ l \in {"Low", "Medium", "High"}
           /\ (l = "Low") = (s < Quantile(Scores, Q_LOW))
           /\ (l = "High") = (s > Quantile(Scores, Q_HIGH))

\* C2 (amended): every row has exactly one level; Low iff its score is below
\* the 75th percentile, High iff its score is at or above the 95th percentile,
\* Medium iff at or above the 75th and below the 95th
C2_LevelByCutPoints ==
    pc = "classified" =>
      \A i \in 1..Len(merged_df) :
        LET s == QDen * merged_df[i].risk_score
            l == merged_df[i].risk_level
        IN /\ l \in {"Low", "Medium", "High"}
           /\ (l = "Low") = (s < Quantile(Scores, Q_LOW))
           /\ (l = "Medium") = (s >= Quantile(Scores, Q_LOW) /\ s < Quantile(Scores, Q_HIGH))
           /\ (l = "High") = (s >= Quantile(Scores, Q_HIGH))

C2_Witness ==
    /\ pc = "classified"
    /\ \E i, j \in 1..Len(merged_df) :
         /\ merged_df[i].risk_level = "High"
         /\ QDen * merged_df[i].risk_score = high_thresh
         /\ merged_df[j].risk_level = "Low"

Max3(a, b, c) == IF a >= b /\ a >= c THEN a ELSE IF b >= c THEN b ELSE c

\* C3: after the outer join every (user, date) pair of any source is in exactly
\* one row, the row count lies between the largest aggregate and the sum of the
\* three, and after the zero fill every measure equals what the source holds
\* for the pair, zero when the source has no row for it
C3_JoinUniqueBounded ==
    pc \in {"merged", "filled"} =>
      /\ \A i, j \in 1..Len(merged_df) :
           KeyOf(merged_df[i]) = KeyOf(merged_df[j]) => i = j
      /\ KeysOf(merged_df) = KeysOf(logon_df) \cup KeysOf(http_df) \cup KeysOf(device_df)
      /\ Len(merged_df) >= Max3(Len(logon_agg), Len(http_agg), Len(device_agg))
      /\ Len(merged_df) <= Len(logon_agg) + Len(http_agg) + Len(device_agg)
      /\ pc = "filled" =>
           \A i \in 1..Len(merged_df) :
             LET r == merged_df[i]
                 k == KeyOf(r)
             IN /\ r.logon_count = Len(RowsAt(logon_df, k))
                /\ r.http_requests = Len(RowsAt(http_df, k))
                /\ r.http_bytes_sent = SumSeq(Column(RowsAt(http_df, k), "bytes_sent"))
                /\ r.http_bytes_received = SumSeq(Column(RowsAt(http_df, k), "bytes_received"))
                /\ r.device_activity_count = Len(RowsAt(device_df, k))

C3_Witness ==
    /\ pc = "filled"
    /\ Len(merged_df) > Max3(Len(logon_agg), Len(http_agg), Len(device_agg))
    /\ Len(merged_df) < Len(logon_agg) + Len(http_agg) + Len(device_agg)
    /\ \E i, j \in 1..Len(merged_df) :
         /\ merged_df[i].logon_count > 0
         /\ merged_df[i].http_requests > 0
         /\ merged_df[i].device_activity_count = 0
         /\ merged_df[j].logon_count = 0

RECURSIVE SumOver(_, _, _)
SumOver(S, df, c) ==
    IF S = {} THEN 0
    ELSE LET j == CHOOSE x \in S : TRUE IN df[j][c] + SumOver(S \ {j}, df, c)

\* the rows of row i's user dated no later than row i
Upto(i) == {j \in 1..Len(merged_df) :
              merged_df[j].user = merged_df[i].user /\ merged_df[j].date <= merged_df[i].date}

\* the last min(k, WINDOW) of them
Trailing(i) == {j \in Upto(i) :
                  Cardinality({l \in Upto(i) : merged_df[l].date > merged_df[j].date}) < WINDOW}

\* C4: logon_rolling_3 of a user's k-th row by date is the mean of logon_count
\* over that user's last min(k, 3) rows up to it; logon_delta is logon_count
\* minus it, and is 0 on a user's first row
C4_RollingWindow ==
    pc \in {"rolled", "delta"} =>
      \A i \in 1..Len(merged_df) :
        /\ Cardinality(Trailing(i)) * merged_df[i].logon_rolling_3
             = MeanScale * SumOver(Trailing(i), merged_df, "logon_count")
        /\ pc = "delta" =>
             /\ merged_df[i].logon_delta
                  = MeanScale * merged_df[i].logon_count - merged_df[i].logon_rolling_3
             /\ Cardinality(Upto(i)) = 1 => merged_df[i].logon_delta = 0

C4_Witness ==
    /\ pc = "delta"
    /\ \E i, j \in 1..Len(merged_df) :
         /\ Cardinality(Upto(i)) = 4
         /\ merged_df[i].logon_delta # 0
         /\ Cardinality(Upto(j)) = 2
         /\ merged_df[j].logon_delta # 0


\* ------------------------------------------------------------------------
\* the dashboard: the scored file and the cached connection

\* a row of user_risk_analysis.csv; date is a timestamp, in hours
FileRow(u, day, h, level, score, logons, devices, ls, hs, ds) ==
    [date |-> day * HoursPerDay + h, user |-> u, risk_level |-> level,
     risk_score |-> score, logon_count |-> logons, http_requests |-> 0,
     device_activity_count |-> devices, logon_spike |-> ls, http_spike |-> hs,
     device_spike |-> ds, hour |-> h, weekday |-> day % DaysPerWeek]

Pool == << FileRow(1, 1, 8, "High", 9, 4, 1, TRUE, FALSE, FALSE),
           FileRow(1, 3, 20, "Medium", 5, 2, 0, FALSE, TRUE, FALSE),
           FileRow(2, 2, 0, "Low", 1, 1, 0, FALSE, FALSE, TRUE),
           FileRow(2, 3, 7, "High", 8, 3, 2, TRUE, TRUE, FALSE),
           FileRow(2, 1, 0, "Medium", 5, 0, 1, FALSE, FALSE, FALSE) >>

RECURSIVE Ascending(_)
Ascending(S) ==
    IF S = {} THEN <<>>
    ELSE LET m == CHOOSE x \in S : \A o \in S : x <= o
         IN <<m>> \o Ascending(S \ {m})

Range(q) == {q[i] : i \in 1..Len(q)}

Files ==
    {[status |-> st, rows |-> [i \in 1..Cardinality(I) |-> Pool[Ascending(I)[i]]]] :
        st \in {"ok", "badcast"},
        I \in {J \in SUBSET (1..Len(Pool)) : Cardinality(J) <= MaxFileRows}}
    \cup {[status |-> "missing", rows |-> <<>>]}

\* CREATE TABLE user_data AS SELECT * FROM file
CreateTable(f) == f.rows

\* a timestamp cast to DATE: its day
CastDate(ts) == ts \div HoursPerDay

\* ALTER TABLE user_data ALTER COLUMN date TYPE DATE
AlterDate(T) == [i \in 1..Len(T) |-> [T[i] EXCEPT !.date = CastDate(@)]]

\* the handler returning the connection it has, whatever failed
get_duckdb_connection_swallow(f) ==
    IF f.status = "missing" THEN [raised |-> TRUE, con |-> <<>>]
    ELSE IF f.status = "badcast" THEN [raised |-> FALSE, con |-> <<CreateTable(f)>>]
    ELSE [raised |-> FALSE, con |-> <<AlterDate(CreateTable(f))>>]

\* the body of get_duckdb_connection: the connection, or the handled exception
get_duckdb_connection(f) ==
    IF f.status = "missing" THEN [raised |-> TRUE, con |-> <<>>]
    ELSE IF f.status = "badcast" THEN [raised |-> TRUE, con |-> <<>>]
    ELSE [raised |-> FALSE, con |-> <<AlterDate(CreateTable(f))>>]

\* a decorator that never finds an entry
CacheMiss(c) == <<>>

\* st.cache_resource: the entry stored for the call, if any
CacheLookup(c) == c

\* ------------------------------------------------------------------------
\* the dashboard: predicates and queries

\* the range test written with < at its end
DateBetweenExclusive(d, lo, hi) == d >= lo /\ d < hi

\* date >= 'start_date' AND date <= 'end_date'
DateBetween(d, lo, hi) == d >= lo /\ d <= hi

Holds(c, r) ==
    CASE c.kind = "date" -> DateBetween(r.date, c.lo, c.hi)
      [] c.kind = "user" -> r.user \in c.vals
      [] c.kind = "risk" -> r.risk_level \in c.vals
      [] c.kind = "flag" -> r[c.col] = TRUE

\* SELECT * FROM user_data WHERE c1 AND c2 AND ...; no clause when w is empty
Select(T, w) == SelectSeq(T, LAMBDA r : \A i \in 1..Len(w) : Holds(w[i], r))

\* the clause with one more condition on risk_level
AndRisk(w, levels) == Append(w, [kind |-> "risk", vals |-> levels])

SeqMin(q) == CHOOSE x \in Range(q) : \A o \in Range(q) : x <= o

SeqMax(q) == CHOOSE x \in Range(q) : \A o \in Range(q) : x >= o

\* what the date picker can hold: no date, one date, or a start and an end
DateTuples(lo, hi) ==
    {<<>>} \cup {<<d>> : d \in lo..hi}
           \cup {t \in (lo..hi) \X (lo..hi) : t[1] <= t[2]}

Terminal == {"rendered", "stopped", "error"}

\* ------------------------------------------------------------------------
\* the dashboard: one run of the script

Run ==
    /\ pc \in Terminal \cup {"idle"}
    /\ pc' = "connect"
    /\ StartRun
    /\ UNCHANGED <<file, cache, loads, wvars, pvars>>

\* lines 154-157: the cached call; a miss runs the body and stores its result,
\* a handled failure shows the error and stops the run
Connect ==
    /\ pc = "connect"
    /\ IF CacheLookup(cache) # <<>>
       THEN /\ con' = CacheLookup(cache)
            /\ pc' = "sidebar"
            /\ UNCHANGED <<cache, loads, shown>>
       ELSE LET res == get_duckdb_connection(file)
            IN IF res.raised
               THEN /\ shown' = shown \cup {"error"}
                    /\ pc' = "stopped"
                    /\ UNCHANGED <<cache, loads, con>>
               ELSE /\ cache' = res.con
                    /\ loads' = loads + 1
                    /\ con' = res.con
                    /\ pc' = "sidebar"
                    /\ UNCHANGED shown
    /\ UNCHANGED <<file, wvars, start_end, query_conditions, all_users, selected_users,
                   where_clause, filtered_row_count, kpi_data, views,
                   df_flagged_details, df_export, queries, pvars>>

\* the IN condition appended even for an empty selection
AddInAlways(qc, kind, vals) == Append(qc, [kind |-> kind, vals |-> vals])

\* if selected: query_conditions.append("col IN (...)"); nothing when none is
AddIn(qc, kind, vals) ==
    IF vals # {} THEN Append(qc, [kind |-> kind, vals |-> vals]) ELSE qc

\* lines 159-229: the date bounds, the widgets and the WHERE clause
Sidebar ==
    /\ pc = "sidebar"
    /\ LET T == con[1]
       IN IF Len(T) = 0
          THEN /\ pc' = "error"
               /\ queries' = queries + 2
               /\ UNCHANGED <<users_w, start_end, query_conditions, all_users,
                              selected_users, where_clause, shown>>
          ELSE LET min_date == SeqMin(Column(T, "date"))
                   max_date == SeqMax(Column(T, "date"))
                   date_range == IF date_w.set THEN date_w.val ELSE <<min_date, max_date>>
                   two == Len(date_range) = 2
                   qc1 == IF two
                          THEN <<[kind |-> "date", lo |-> date_range[1], hi |-> date_range[2]]>>
                          ELSE <<>>
                   users == Ascending({r.user : r \in Range(Select(T, qc1))})
                   keep == users_w.set /\ users_w.options = users
                   sel == IF keep THEN users_w.val
                          ELSE IF Len(users) < UserDefaultLimit THEN Range(users) ELSE {}
                   qc2 == AddIn(qc1, "user", sel)
                   qc3 == AddIn(qc2, "risk", risk_w)
                   qc4 == IF logon_cb THEN Append(qc3, [kind |-> "flag", col |-> "logon_spike"])
                          ELSE qc3
                   qc5 == IF http_cb THEN Append(qc4, [kind |-> "flag", col |-> "http_spike"])
                          ELSE qc4
                   qc6 == IF device_cb THEN Append(qc5, [kind |-> "flag", col |-> "device_spike"])
                          ELSE qc5
                   warn == IF two THEN {} ELSE {"sidebar_warning"}
               IN /\ start_end' = IF two THEN date_range ELSE <<>>
                  /\ all_users' = users
                  /\ selected_users' = sel
                  /\ users_w' = IF keep THEN users_w
                                ELSE [set |-> FALSE, val |-> {}, options |-> <<>>]
                  /\ queries' = queries + 3
                  /\ IF sel = {} /\ users = <<>>
                     THEN /\ query_conditions' = qc1
                          /\ where_clause' = <<>>
                          /\ shown' = shown \cup warn \cup {"w:date", "w:users", "no_users_warning"}
                          /\ pc' = "stopped"
                     ELSE /\ query_conditions' = qc6
                          /\ where_clause' = qc6
                          /\ shown' = shown \cup warn \cup {"w:date", "w:users", "w:risk", "w:flags"}
                          /\ pc' = "count"
    /\ UNCHANGED <<file, cache, loads, date_w, risk_w, logon_cb, http_cb, device_cb, con,
                   filtered_row_count, kpi_data, views, df_flagged_details, df_export,
                   pvars>>

\* the count taken and the run going on whatever it is
CountNoStop ==
    /\ pc = "count"
    /\ filtered_row_count' = Len(Select(con[1], where_clause))
    /\ queries' = queries + 1
    /\ pc' = "kpi"
    /\ UNCHANGED <<file, cache, loads, wvars, con, start_end, query_conditions, all_users,
                   selected_users, where_clause, kpi_data, views, df_flagged_details,
                   df_export, shown, pvars>>

\* lines 235-241: the row count of the filtered data; none stops the run
Count ==
    /\ pc = "count"
    /\ filtered_row_count' = Len(Select(con[1], where_clause))
    /\ queries' = queries + 1
    /\ IF filtered_row_count' = 0
       THEN /\ shown' = shown \cup {"no_data_warning"}
            /\ pc' = "stopped"
       ELSE /\ pc' = "kpi"
            /\ UNCHANGED shown
    /\ UNCHANGED <<file, cache, loads, wvars, con, start_end, query_conditions, all_users,
                   selected_users, where_clause, kpi_data, views, df_flagged_details,
                   df_export, pvars>>

\* High decided again from the 95th percentile of the rows it is given
HighRowsRequantiled(F) ==
    SelectSeq(F, LAMBDA r : QDen * r.risk_score >= Quantile(Column(F, "risk_score"), Q_HIGH))

\* CASE WHEN risk_level = 'High': the rows labelled High in the file
HighRows(F) == SelectSeq(F, LAMBDA r : r.risk_level = "High")

\* lines 243-275: the aggregates, the header and the four cards; the fourth
\* card reads start_date and end_date
Kpi ==
    /\ pc = "kpi"
    /\ LET F == Select(con[1], where_clause)
       IN kpi_data' = [total_unique_users |-> Cardinality({r.user : r \in Range(F)}),
                       total_high_risk_events |-> Len(HighRows(F)),
                       risk_score_sum |-> SumSeq(Column(F, "risk_score")),
                       risk_score_n |-> Len(F)]
    /\ queries' = queries + 1
    /\ IF start_end = <<>>
       THEN /\ shown' = shown \cup {"header", "kpi:users", "kpi:high", "kpi:avg"}
            /\ pc' = "error"
       ELSE /\ shown' = shown \cup {"header", "kpi:users", "kpi:high", "kpi:avg", "kpi:range"}
            /\ pc' = "tab1"
    /\ UNCHANGED <<file, cache, loads, wvars, con, start_end, query_conditions, all_users,
                   selected_users, where_clause, filtered_row_count, views,
                   df_flagged_details, df_export, pvars>>


\* GROUP BY col ... ORDER BY col, with COUNT(*)
GroupCount(F, col) ==
    LET ks == Ascending(Range(Column(F, col)))
    IN [i \in 1..Len(ks) |->
          [key |-> ks[i], count |-> Len(SelectSeq(F, LAMBDA r : r[col] = ks[i]))]]

\* GROUP BY risk_level ORDER BY CASE ...: the levels that occur, Low first
LevelCount(F) ==
    LET present == SelectSeq(RISK_LEVEL_ORDER,
                             LAMBDA l : \E i \in 1..Len(F) : F[i].risk_level = l)
    IN [i \in 1..Len(present) |->
          [risk_level |-> present[i],
           count |-> Len(SelectSeq(F, LAMBDA r : r.risk_level = present[i]))]]

\* the grouped counts as the query gives them, absent levels left out
PresentLevels(counts) == counts

\* pd.merge(full_risk_levels_df, counts, how='left').fillna(0)
FullLevels(counts) ==
    [i \in 1..Len(RISK_LEVEL_ORDER) |->
       LET hit == SelectSeq(counts, LAMBDA g : g.risk_level = RISK_LEVEL_ORDER[i])
           n == IF Len(hit) = 0 THEN NaN ELSE hit[1].count
       IN [risk_level |-> RISK_LEVEL_ORDER[i], count |-> IF n = NaN THEN 0 ELSE n]]

\* ORDER BY key LIMIT n without DESC: the n rows of S smallest by key
TopByAscending(S, key, n) ==
    LET m == IF Cardinality(S) < n THEN Cardinality(S) ELSE n
    IN {q \in [1..m -> S] :
          /\ \A i, j \in 1..m : i < j => q[i] # q[j] /\ q[i][key] <= q[j][key]
          /\ \A x \in S \ Range(q) : \A i \in 1..m : q[i][key] <= x[key]}

\* ORDER BY key DESC LIMIT n over the records S: every answer the engine may
\* give, rows of equal key in any order
TopBy(S, key, n) ==
    LET m == IF Cardinality(S) < n THEN Cardinality(S) ELSE n
    IN {q \in [1..m -> S] :
          /\ \A i, j \in 1..m : i < j => q[i] # q[j] /\ q[i][key] >= q[j][key]
          /\ \A x \in S \ Range(q) : \A i \in 1..m : q[i][key] >= x[key]}

\* GROUP BY date with the sums of the activity counts
DailySums(F) ==
    LET ks == Ascending(Range(Column(F, "date")))
    IN [i \in 1..Len(ks) |->
          LET D == SelectSeq(F, LAMBDA r : r.date = ks[i])
          IN [date |-> ks[i],
              logon_count |-> SumSeq(Column(D, "logon_count")),
              http_requests |-> SumSeq(Column(D, "http_requests")),
              device_activity_count |-> SumSeq(Column(D, "device_activity_count"))]]

\* the chart drawn whatever the frame holds, the emptiness test left out
PlotAlways(name, df) == {"chart:" \o name}

Plot(name, df) == IF df = <<>> THEN {"info:" \o name} ELSE {"chart:" \o name}

\* lines 283-384: the Overview tab
Tab1 ==
    /\ pc = "tab1"
    /\ LET F == Select(con[1], where_clause)
           H == Select(con[1], AndRisk(where_clause, {"High"}))
           byUser == Range(GroupCount(H, "user"))
       IN \E top \in TopBy(byUser, "count", TopUsers) :
            /\ views' = views @@
                  [risk_level_counts |-> FullLevels(LevelCount(F)),
                   high_risk_daily |-> GroupCount(H, "date"),
                   top_users |-> top,
                   risk_scores |-> Column(F, "risk_score")]
            /\ shown' = shown \cup {"chart:risk_levels"}
                              \cup Plot("high_risk_daily", GroupCount(H, "date"))
                              \cup Plot("top_users", top)
                              \cup Plot("risk_scores", F)
    /\ queries' = queries + 4
    /\ pc' = "tab2"
    /\ UNCHANGED <<file, cache, loads, wvars, con, start_end, query_conditions, all_users,
                   selected_users, where_clause, filtered_row_count, kpi_data,
                   df_flagged_details, df_export, pvars>>

\* lines 387-421: the detail table
Tab2 ==
    /\ pc = "tab2"
    /\ \E d \in TopBy(Range(Select(con[1], AndRisk(where_clause, {"High", "Medium"}))),
                      "risk_score", DetailLimit) :
         /\ df_flagged_details' = d
         /\ shown' = shown \cup
              (IF d = <<>> THEN {"info:flagged"}
               ELSE {"table:flagged"} \cup
                    (IF filtered_row_count > DetailLimit THEN {"info:top"} ELSE {}))
    /\ queries' = queries + 1
    /\ pc' = "tab3"
    /\ UNCHANGED <<file, cache, loads, wvars, con, start_end, query_conditions, all_users,
                   selected_users, where_clause, filtered_row_count, kpi_data, views,
                   df_export, pvars>>

\* lines 423-530: the Activity Trends tab
Tab3 ==
    /\ pc = "tab3"
    /\ LET F == Select(con[1], where_clause)
           H == Select(con[1], AndRisk(where_clause, {"High"}))
       IN /\ views' = views @@
                [daily_agg |-> DailySums(F),
                 high_risk_by_hour |-> GroupCount(H, "hour"),
                 high_risk_by_weekday |-> GroupCount(H, "weekday")]
          /\ shown' = shown \cup (IF F = <<>> THEN {"info:daily_agg"}
                                  ELSE {"chart:logon_trend", "chart:device_trend"})
                            \cup Plot("by_hour", H)
                            \cup Plot("by_weekday", H)
    /\ queries' = queries + 3
    /\ pc' = "tab4"
    /\ UNCHANGED <<file, cache, loads, wvars, con, start_end, query_conditions, all_users,
                   selected_users, where_clause, filtered_row_count, kpi_data,
                   df_flagged_details, df_export, pvars>>

\* the export query with the detail table's row limit on it
ExportCapped(T, w) == SubSeq(Select(T, w), 1, DetailLimit)

\* base_query: SELECT * FROM user_data WHERE ..., no LIMIT
ExportQuery(T, w) == Select(T, w)

\* lines 564-598: the Export tab and the end of the script
Tab4 ==
    /\ pc = "tab4"
    /\ df_export' = ExportQuery(con[1], where_clause)
    /\ shown' = shown \cup (IF df_export' = <<>> THEN {"info:export"}
                            ELSE {"download:csv", "download:xlsx"})
    /\ queries' = queries + 1
    /\ pc' = "rendered"
    /\ UNCHANGED <<file, cache, loads, wvars, con, start_end, query_conditions, all_users,
                   selected_users, where_clause, filtered_row_count, kpi_data, views,
                   df_flagged_details, pvars>>

\* ------------------------------------------------------------------------
\* the dashboard: the user and the clock

\* a widget the last run displayed is changed; the script runs again
Rerun ==
    /\ pc \in Terminal
    /\ pc' = "connect"
    /\ StartRun
    /\ UNCHANGED <<file, cache, loads, pvars>>

ChangeDate(v) ==
    /\ "w:date" \in shown
    /\ v \in DateTuples(SeqMin(Column(con[1], "date")), SeqMax(Column(con[1], "date")))
    /\ v # (IF date_w.set THEN date_w.val
             ELSE <<SeqMin(Column(con[1], "date")), SeqMax(Column(con[1], "date"))>>)
    /\ date_w' = [set |-> TRUE, val |-> v]
    /\ Rerun
    /\ UNCHANGED <<users_w, risk_w, logon_cb, http_cb, device_cb>>

ChangeUsers(S) ==
    /\ "w:users" \in shown
    /\ S \subseteq Range(all_users)
    /\ S # selected_users
    /\ users_w' = [set |-> TRUE, val |-> S, options |-> all_users]
    /\ Rerun
    /\ UNCHANGED <<date_w, risk_w, logon_cb, http_cb, device_cb>>

ChangeRisk(S) ==
    /\ "w:risk" \in shown
    /\ S \subseteq Range(RISK_LEVEL_ORDER)
    /\ S # risk_w
    /\ risk_w' = S
    /\ Rerun
    /\ UNCHANGED <<date_w, users_w, logon_cb, http_cb, device_cb>>

ToggleLogon ==
    /\ "w:flags" \in shown
    /\ logon_cb' = ~logon_cb
    /\ Rerun
    /\ UNCHANGED <<date_w, users_w, risk_w, http_cb, device_cb>>

ToggleHttp ==
    /\ "w:flags" \in shown
    /\ http_cb' = ~http_cb
    /\ Rerun
    /\ UNCHANGED <<date_w, users_w, risk_w, logon_cb, device_cb>>

ToggleDevice ==
    /\ "w:flags" \in shown
    /\ device_cb' = ~device_cb
    /\ Rerun
    /\ UNCHANGED <<date_w, users_w, risk_w, logon_cb, http_cb>>

\* ttl=3600: the cached connection expires between two runs
Expire ==
    /\ pc \in Terminal
    /\ cache # <<>>
    /\ cache' = <<>>
    /\ loads' = 0
    /\ UNCHANGED <<pc, file, wvars, lvars, pvars>>

InitDash ==
    /\ pc = "idle"
    /\ file \in Files
    /\ cache = <<>>
    /\ loads = 0
    /\ DefaultWidgets
    /\ FreshRun
    /\ PipelineIdle

NextDash ==
    \/ Run
    \/ Connect
    \/ Sidebar
    \/ Count
    \/ Kpi
    \/ Tab1
    \/ Tab2
    \/ Tab3
    \/ Tab4
    \/ \E v \in DateTuples(1, 3) : ChangeDate(v)
    \/ \E S \in SUBSET Users : ChangeUsers(S)
    \/ \E S \in SUBSET Range(RISK_LEVEL_ORDER) : ChangeRisk(S)
    \/ ToggleLogon
    \/ ToggleHttp
    \/ ToggleDevice
    \/ Expire

SpecDash == InitDash /\ [][NextDash]_vars


\* ------------------------------------------------------------------------
\* properties of the dashboard

\* the rows of the scored file that the widgets' values let through, said of
\* the file's own timestamps
Passes(r) ==
    /\ start_end # <<>> =>
         /\ start_end[1] <= r.date \div HoursPerDay
         /\ r.date \div HoursPerDay <= start_end[2]
    /\ selected_users # {} => r.user \in selected_users
    /\ risk_w # {} => r.risk_level \in risk_w
    /\ logon_cb => r.logon_spike
    /\ http_cb => r.http_spike
    /\ device_cb => r.device_spike

Passing == {i \in 1..Len(file.rows) : Passes(file.rows[i])}

Outputs == {"header", "kpi:users", "kpi:high", "kpi:avg", "kpi:range",
            "chart:risk_levels", "chart:high_risk_daily", "chart:top_users",
            "chart:risk_scores", "table:flagged", "chart:logon_trend",
            "chart:device_trend", "chart:by_hour", "chart:by_weekday",
            "download:csv", "download:xlsx"}

\* C5: a run that reaches the end of the Export tab exports as many rows as
\* the header's filtered_row_count, and exactly the rows the filters let through
C5_ExportCountEqualsHeader ==
    pc = "rendered" =>
      /\ "header" \in shown
      /\ Len(df_export) = filtered_row_count
      /\ Len(df_export) = Cardinality(Passing)

C5_Witness ==
    /\ pc = "rendered"
    /\ Len(df_export) > DetailLimit
    /\ Len(df_flagged_details) = DetailLimit
    /\ Len(df_export) < Len(con[1])

\* C6: with a start and an end date selected, the user list holds the users of
\* exactly the file's rows dated from start_date to end_date, both days whole,
\* and the count and the export hold exactly the rows that also pass the other
\* filters
C6_DateRangeInclusive ==
    (start_end # <<>> /\ pc \in {"count", "kpi", "tab1", "tab2", "tab3", "tab4", "rendered"}) =>
      /\ Range(all_users) =
           {file.rows[i].user : i \in {j \in 1..Len(file.rows) :
               /\ start_end[1] <= file.rows[j].date \div HoursPerDay
               /\ file.rows[j].date \div HoursPerDay <= start_end[2]}}
      /\ pc # "count" => filtered_row_count = Cardinality(Passing)
      /\ pc = "rendered" =>
           /\ Range(df_export) = {AlterDate(file.rows)[i] : i \in Passing}
           /\ \A i \in 1..Len(df_flagged_details) :
                DateBetween(df_flagged_details[i].date, start_end[1], start_end[2])

C6_Witness ==
    /\ pc = "rendered"
    /\ start_end # <<>>
    /\ \E i, j, k \in 1..Len(file.rows) :
         /\ file.rows[i].date \div HoursPerDay = start_end[2]
         /\ file.rows[i].date % HoursPerDay > 0
         /\ AlterDate(file.rows)[i] \in Range(df_export)
         /\ file.rows[j].date \div HoursPerDay = start_end[1]
         /\ AlterDate(file.rows)[j] \in Range(df_export)
         /\ file.rows[k].date \div HoursPerDay < start_end[1]

NothingProduced ==
    /\ shown \cap Outputs = {}
    /\ kpi_data = <<>>
    /\ views = <<>>
    /\ df_flagged_details = <<>>
    /\ df_export = <<>>

\* C7: a run whose filters let no row through ends stopped with a warning, and
\* a run stopped by either warning has produced no KPI, chart, table or export
C7_ZeroRowsStops ==
    /\ (pc \in Terminal /\ "w:date" \in shown /\ Passing = {}) =>
         /\ pc = "stopped"
         /\ shown \cap {"no_data_warning", "no_users_warning"} # {}
    /\ shown \cap {"no_data_warning", "no_users_warning"} # {} =>
         /\ pc = "stopped"
         /\ Passing = {}
         /\ NothingProduced
    /\ "no_users_warning" \in shown => all_users = <<>> /\ selected_users = {}

C7_Witness ==
    /\ pc = "stopped"
    /\ "no_data_warning" \in shown
    /\ Len(con[1]) > 0
    /\ selected_users # {}

\* C8: when the file cannot be loaded or its date column cannot be cast, the
\* run shows the error and stops with no query issued, no connection in the
\* script and none in the cache
C8_LoadFailureHalts ==
    file.status # "ok" =>
      /\ cache = <<>>
      /\ con = <<>>
      /\ queries = 0
      /\ pc \in {"idle", "connect", "stopped"}
      /\ pc = "stopped" => shown = {"error"}

C8_Witness ==
    /\ file.status = "badcast"
    /\ Len(file.rows) > 0
    /\ pc = "stopped"
    /\ "error" \in shown

Order == {<<"idle", "connect">>, <<"connect", "sidebar">>, <<"connect", "stopped">>,
          <<"sidebar", "count">>, <<"sidebar", "stopped">>, <<"sidebar", "error">>,
          <<"count", "kpi">>, <<"count", "stopped">>, <<"kpi", "tab1">>,
          <<"kpi", "error">>, <<"tab1", "tab2">>, <<"tab2", "tab3">>,
          <<"tab3", "tab4">>, <<"tab4", "rendered">>, <<"rendered", "connect">>,
          <<"stopped", "connect">>, <<"error", "connect">>}

\* C9: between two expiries the file is loaded at most once; a run moves only
\* forward through connect, sidebar, count and the views; a query has run only
\* on a loaded table; a run that finds the cached connection uses it and loads
\* nothing
C9_LoadedOnceInOrder ==
    /\ [](loads <= 1)
    /\ [](queries > 0 => con # <<>>)
    /\ [](pc \in {"sidebar", "count", "kpi", "tab1", "tab2", "tab3", "tab4"}
            => con # <<>> /\ con = cache)
    /\ [][pc' # pc => <<pc, pc'>> \in Order]_vars
    /\ [][(pc = "connect" /\ cache # <<>>)
            => (cache' = cache /\ loads' = loads /\ con' = cache /\ pc' = "sidebar")]_vars

C9_Witness ==
    /\ pc = "rendered"
    /\ loads = 1
    /\ date_w.set
    /\ risk_w # Range(RISK_LEVEL_ORDER)
    /\ logon_cb

\* C10: the loaded table is the file's rows with the date cast, in the cache
\* and in every run, and no step but the expiry touches it; the High count of
\* the KPIs and of the daily series is the number of the file's High rows that
\* the filters let through
C10_TableReadOnly ==
    /\ [](cache # <<>> => cache[1] = AlterDate(file.rows))
    /\ [](con # <<>> => con[1] = AlterDate(file.rows))
    /\ [][cache # <<>> => (cache' = cache \/ (cache' = <<>> /\ pc' = pc))]_vars
    /\ [](kpi_data # <<>> =>
            kpi_data.total_high_risk_events =
              Cardinality({i \in Passing : file.rows[i].risk_level = "High"}))
    /\ [](pc = "rendered" =>
            SumSeq(Column(views.high_risk_daily, "count")) =
              Cardinality({i \in Passing : file.rows[i].risk_level = "High"}))

C10_Witness ==
    /\ pc = "rendered"
    /\ date_w.set
    /\ kpi_data.total_high_risk_events = 1
    /\ Cardinality({i \in 1..Len(file.rows) : file.rows[i].risk_level = "High"}) = 2
    /\ Len(df_export) = 2


\* the rows of the loaded table that the widgets' values let through
PassingRows == {AlterDate(file.rows)[i] : i \in Passing}

\* C11: once the Overview tab has run, the bar chart's frame has the rows Low,
\* Medium, High in that order, each with the number of filtered rows of that
\* level, 0 for a level without rows, and the three counts sum to
\* filtered_row_count
C11_RiskLevelBarsZeroFilled ==
    pc \in {"tab2", "tab3", "tab4", "rendered"} =>
      /\ "chart:risk_levels" \in shown
      /\ Column(views.risk_level_counts, "risk_level") = RISK_LEVEL_ORDER
      /\ \A i \in 1..Len(views.risk_level_counts) :
           views.risk_level_counts[i].count =
             Cardinality({j \in Passing :
                            file.rows[j].risk_level = views.risk_level_counts[i].risk_level})
      /\ SumSeq(Column(views.risk_level_counts, "count")) = filtered_row_count

C11_Witness ==
    /\ pc = "rendered"
    /\ \E i, j \in 1..Len(views.risk_level_counts) :
         /\ views.risk_level_counts[i].count = 0
         /\ views.risk_level_counts[i].risk_level \in risk_w
         /\ views.risk_level_counts[j].count > 1


\* the filtered rows whose level is Medium or High
FlaggedRows == {r \in PassingRows : r.risk_level \in {"Medium", "High"}}

Placeholder(df, info, outs) ==
    df = <<>> => info \in shown /\ outs \cap shown = {}

\* every view of a tab that has run shows its outputs or its placeholder
Answered(info, outs) == info \in shown \/ outs \subseteq shown

\* C13: after the zero-row check a view whose query returned no rows shows its
\* placeholder and no chart, table or download, and the views after it are
\* still rendered: a run that has entered the tabs ends with all eight answered
C13_EmptyViewsShowPlaceholder ==
    /\ pc \in {"tab2", "tab3", "tab4", "rendered"} =>
         /\ Placeholder(views.high_risk_daily, "info:high_risk_daily",
                        {"chart:high_risk_daily"})
         /\ Placeholder(views.top_users, "info:top_users", {"chart:top_users"})
         /\ Placeholder(views.risk_scores, "info:risk_scores", {"chart:risk_scores"})
    /\ pc \in {"tab3", "tab4", "rendered"} =>
         Placeholder(df_flagged_details, "info:flagged", {"table:flagged", "info:top"})
    /\ pc \in {"tab4", "rendered"} =>
         /\ Placeholder(views.daily_agg, "info:daily_agg",
                        {"chart:logon_trend", "chart:device_trend"})
         /\ Placeholder(views.high_risk_by_hour, "info:by_hour", {"chart:by_hour"})
         /\ Placeholder(views.high_risk_by_weekday, "info:by_weekday",
                        {"chart:by_weekday"})
    /\ pc = "rendered" =>
         Placeholder(df_export, "info:export", {"download:csv", "download:xlsx"})
    /\ (pc \in Terminal /\ "chart:risk_levels" \in shown) =>
         /\ pc = "rendered"
         /\ Answered("info:high_risk_daily", {"chart:high_risk_daily"})
         /\ Answered("info:top_users", {"chart:top_users"})
         /\ Answered("info:risk_scores", {"chart:risk_scores"})
         /\ Answered("info:flagged", {"table:flagged"})
         /\ Answered("info:daily_agg", {"chart:logon_trend", "chart:device_trend"})
         /\ Answered("info:by_hour", {"chart:by_hour"})
         /\ Answered("info:by_weekday", {"chart:by_weekday"})
         /\ Answered("info:export", {"download:csv", "download:xlsx"})

C13_Witness ==
    /\ pc = "rendered"
    /\ views.high_risk_daily = <<>>
    /\ df_flagged_details = <<>>
    /\ {"info:high_risk_daily", "info:top_users", "info:flagged", "info:by_hour",
        "info:by_weekday", "chart:risk_scores", "chart:logon_trend",
        "download:csv"} \subseteq shown


\* the conditions of the clause w of one kind
OfKind(w, kind) == SelectSeq(w, LAMBDA c : c.kind = kind)

\* the number of filters the widgets' values make active
ActiveFilters ==
    (IF start_end # <<>> THEN 1 ELSE 0) + (IF selected_users # {} THEN 1 ELSE 0)
    + (IF risk_w # {} THEN 1 ELSE 0) + (IF logon_cb THEN 1 ELSE 0)
    + (IF http_cb THEN 1 ELSE 0) + (IF device_cb THEN 1 ELSE 0)

\* C14: once the sidebar has built it, the where clause holds one condition per
\* active filter and no other: the date range when two dates are chosen, user
\* IN when a user is selected, risk_level IN when a level is selected, one
\* equality per ticked checkbox; it selects exactly the rows all of them let
\* through, and the whole table when no filter is active
C14_WhereIsConjunctionOfActive ==
    "w:flags" \in shown =>
      /\ Len(where_clause) = ActiveFilters
      /\ OfKind(where_clause, "date") =
           IF start_end # <<>>
           THEN <<[kind |-> "date", lo |-> start_end[1], hi |-> start_end[2]]>>
           ELSE <<>>
      /\ OfKind(where_clause, "user") =
           IF selected_users # {} THEN <<[kind |-> "user", vals |-> selected_users]>>
           ELSE <<>>
      /\ OfKind(where_clause, "risk") =
           IF risk_w # {} THEN <<[kind |-> "risk", vals |-> risk_w]>> ELSE <<>>
      /\ \A col \in {"logon_spike", "http_spike", "device_spike"} :
           LET ticked == CASE col = "logon_spike" -> logon_cb
                           [] col = "http_spike" -> http_cb
                           [] col = "device_spike" -> device_cb
           IN SelectSeq(OfKind(where_clause, "flag"), LAMBDA c : c.col = col) =
                IF ticked THEN <<[kind |-> "flag", col |-> col]>> ELSE <<>>
      /\ Range(Select(con[1], where_clause)) = PassingRows
      /\ ActiveFilters = 0 => Select(con[1], where_clause) = AlterDate(file.rows)

C14_Witness ==
    /\ pc = "rendered"
    /\ selected_users = {}
    /\ risk_w = {}
    /\ logon_cb
    /\ Len(where_clause) = 2
    /\ Len(all_users) > 1
    /\ Len(df_export) < Len(file.rows)


\* C15: a run that has passed the zero-row check, so has drawn the header of
\* the KPI row, ends at the end of the script whatever the date picker holds,
\* and with fewer than two dates, the sidebar warning shown, start_date and
\* end_date are still defined when the 'Data Range' card is drawn
C15_RenderReachesEnd ==
    /\ (pc \in Terminal /\ "header" \in shown) => pc = "rendered"
    /\ ("sidebar_warning" \in shown /\ "header" \in shown) =>
         start_end # <<>> /\ "kpi:range" \in shown

====
